---- MODULE Spec2Model ----
(***************************************************************************)
(* green-energy: the FCFS + load-balancing scheduler with node power       *)
(* control (src/power_control/powerControlScheduler.py).                   *)
(*                                                                         *)
(* The scheduler object's fields are the variables; every Batsim callback  *)
(* (onSimulationBegins, onRequestedCall, onJobSubmission, ...) is one      *)
(* action that runs the whole handler.  NodePowerController (module        *)
(* powerControl) is imported by the scheduler but its source is not part   *)
(* of the reviewed files: its operations are modelled from the written     *)
(* description of the power controller (sections 3 and 4.2).               *)
(***************************************************************************)
EXTENDS Integers, Sequences, FiniteSets, TLC

(***************************************************************************)
(* Bounds of the model.                                                    *)
(***************************************************************************)
\* number of compute nodes of the simulated platform (bs.nb_resources)
NumNodes == 4
\* number of jobs the engine submits in one run
MaxJobs == 3
\* number of periodic callbacks delivered in one run
MaxTicks == 2
\* number of job-completed events the engine delivers a second time
MaxDup == 1
\* number of energy reports delivered in one run
MaxReports == 3

Nodes == 0 .. (NumNodes - 1)
Jobs == 1 .. MaxJobs
\* the jobs submitted in the runs that also power nodes down and up
PowerJobs == 1 .. (MaxJobs - 1)
\* node counts the submitted jobs ask for; 10 is more than the platform has
ReqSizes == {1, 2, 3, 10}
\* the node counts asked for in the runs that also power nodes down and up
PowerReqSizes == {1, 3, 10}
\* number of nodes one call of ExecutePowerActions acts on: half the platform
MaxPlan == NumNodes \div 2
\* how late after the requested time the engine delivers a requested call
Lateness == {0, 1740}
\* cumulative energy values the engine reports
EnergyValues == {0, 600, 1200, 1800}
\* clock steps between two energy reports
ClockSteps == {0, 60, 120}

(***************************************************************************)
(* Program constants (PowerControlScheduler.__init__).                     *)
(***************************************************************************)
power_check_interval == 1800
record_interval == 60

VARIABLES
  phase,              \* "NotStarted" | "Running" | "Aborted"
  now,                \* bs.time(), the engine's clock
  pending_call,       \* engine side: times of the requested calls not yet delivered
  last_power_check,
  simulation_started,
  waiting_jobs,       \* list of job ids, arrival order
  running_jobs,       \* list of job ids, order of placement
  req,                \* job.requested_resources (0: not submitted yet)
  allocation,         \* job.allocation, a ProcSet
  node_state,         \* NodePowerController: power state of every node
  job_count,          \* NodePowerController: jobs on every node
  rejected,           \* outbound: jobs of the reject_jobs calls, in order
  exec_log,           \* outbound: the execute_jobs batches, in order
  done,               \* engine side: jobs whose completion was delivered
  dups,               \* engine side: completions delivered a second time
  nb_records,         \* rows written by RecordSystemState
  written,            \* outbound: the rows the last event wrote (RecordSystemState)
  wake_requests,      \* outbound: the wake_me_up_at calls of the last event
  last_energy,
  last_energy_time,
  current_power,      \* <<numerator, denominator>> of energy_diff / time_diff
  nb_reports          \* energy reports delivered so far

sched_vars == <<waiting_jobs, running_jobs, req, allocation, rejected, exec_log,
                done, dups, simulation_started>>
node_vars == <<node_state, job_count>>
timer_vars == <<pending_call, last_power_check, nb_records>>
energy_vars == <<last_energy, last_energy_time, current_power, nb_reports>>
vars == <<phase, now, sched_vars, node_vars, timer_vars, energy_vars, written,
         wake_requests>>

(***************************************************************************)
(* Node power states (section 4.2).                                        *)
(***************************************************************************)
COMPUTING == "COMPUTING"
IDLE == "IDLE"
SWITCHING_TO_SLEEP == "SWITCHING_TO_SLEEP"
SLEEPING == "SLEEPING"
WAKING_FROM_SLEEP == "WAKING_FROM_SLEEP"
POWERING_OFF == "POWERING_OFF"
POWERED_OFF == "POWERED_OFF"
POWERING_ON == "POWERING_ON"

NodeStates == {COMPUTING, IDLE, SWITCHING_TO_SLEEP, SLEEPING, WAKING_FROM_SLEEP,
               POWERING_OFF, POWERED_OFF, POWERING_ON}

SeqToSet(s) == {s[i] : i \in 1 .. Len(s)}
RemoveFirst(s, x) == SelectSeq(s, LAMBDA y : y # x)

(***************************************************************************)
(* NodePowerController, modelled from the description of its operations.   *)
(***************************************************************************)
\* GetAvailableNodes(): nodes in COMPUTING or IDLE only
GetAvailableNodes(nst) == {n \in Nodes : nst[n] \in {COMPUTING, IDLE}}

\* GetNodeJobCount(node)
GetNodeJobCount(cnt, n) == cnt[n]

\* AddJobToNode(node): IDLE -> COMPUTING, or one more job on a computing node
AddJobToNode(pc, n) ==
  [nst |-> IF pc.nst[n] = IDLE THEN [pc.nst EXCEPT ![n] = COMPUTING] ELSE pc.nst,
   cnt |-> [pc.cnt EXCEPT ![n] = @ + 1]]

\* RemoveJobFromNode(node): one job less; COMPUTING -> IDLE when the count
\* reaches zero.  job_count is a non-negative integer: a node that holds no
\* job is left as it is.
RemoveJobFromNode(pc, n) ==
  IF pc.cnt[n] = 0 THEN pc
  ELSE [nst |-> IF pc.cnt[n] = 1 /\ pc.nst[n] = COMPUTING
                  THEN [pc.nst EXCEPT ![n] = IDLE] ELSE pc.nst,
        cnt |-> [pc.cnt EXCEPT ![n] = @ - 1]]

\* the pending state a completed transition to new_state resolves
PendingFor(new_state) ==
  CASE new_state = SLEEPING -> {SWITCHING_TO_SLEEP}
    [] new_state = POWERED_OFF -> {POWERING_OFF}
    [] new_state = IDLE -> {WAKING_FROM_SLEEP, POWERING_ON}
    [] OTHER -> {}

\* HandleStateTransitionComplete(node, new_state): resolves a pending
\* transition; a node not in the matching pending state is left unchanged
HandleStateTransitionComplete(nst, n, new_state) ==
  IF nst[n] \in PendingFor(new_state) THEN [nst EXCEPT ![n] = new_state] ELSE nst

\* what the power policy may ask of a node in state s
PowerActions == {"none", "sleep", "wake", "off", "on"}

\* (a policy that also powers off a node whose sleep is not acknowledged yet)
PolicyAllowsPending(s, a) ==
  \/ a = "none"
  \/ a = "sleep" /\ s = IDLE
  \/ a = "wake" /\ s = SLEEPING
  \/ a = "off" /\ s \in {IDLE, SLEEPING, SWITCHING_TO_SLEEP}
  \/ a = "on" /\ s = POWERED_OFF

PolicyAllows(s, a) ==
  \/ a = "none"
  \/ a = "sleep" /\ s = IDLE
  \/ a = "wake" /\ s = SLEEPING
  \/ a = "off" /\ s \in {IDLE, SLEEPING}
  \/ a = "on" /\ s = POWERED_OFF

\* the pending state a requested transition puts the node in
RequestedState(s, a) ==
  CASE a = "sleep" -> SWITCHING_TO_SLEEP
    [] a = "wake" -> WAKING_FROM_SLEEP
    [] a = "off" -> POWERING_OFF
    [] a = "on" -> POWERING_ON
    [] OTHER -> s

\* ExecutePowerActions(): the policy is pluggable; plan is what it decided
ExecutePowerActions(nst, plan) == [n \in Nodes |-> RequestedState(nst[n], plan[n])]

\* RecordSystemState(time, running_jobs, waiting_jobs, current_power): one
\* row with the queue depths, the power and the number of nodes per state
RecordSystemState(t, rn, wq, power, nst) ==
  [datetime |-> t, running_jobs |-> Len(rn), waiting_jobs |-> Len(wq), power |-> power,
   nb |-> [s \in NodeStates |-> Cardinality({n \in Nodes : nst[n] = s})]]

\* the k highest-numbered nodes of S
RECURSIVE Highest(_, _)
Highest(S, k) ==
  IF k = 0 \/ S = {} THEN {}
  ELSE LET m == CHOOSE x \in S : \A y \in S : y <= x
       IN {m} \cup Highest(S \ {m}, k - 1)

\* the decisions the policy may take in one call: nothing, or one kind of
\* transition for up to MaxPlan of the nodes that allow it, highest ids first
Plans(nst) ==
  {[n \in Nodes |-> "none"]} \cup
  {[n \in Nodes |-> IF n \in Highest({m \in Nodes : PolicyAllows(nst[m], a)}, k)
                      THEN a ELSE "none"] :
     a \in PowerActions \ {"none"}, k \in 1 .. MaxPlan}

(***************************************************************************)
(* PowerControlScheduler.try_schedule_jobs                                 *)
(***************************************************************************)
\* (the sort key without the load: nodes are taken in id order)
LoadLessById(loads, a, b) == a < b

\* (the most loaded nodes first)
LoadLessMost(loads, a, b) == loads[a] > loads[b] \/ (loads[a] = loads[b] /\ a < b)

\* (equal loads broken towards the higher node id)
LoadLessHighId(loads, a, b) == loads[a] < loads[b] \/ (loads[a] = loads[b] /\ a > b)

\* key=lambda n: (node_loads[n], n)
LoadLess(loads, a, b) == loads[a] < loads[b] \/ (loads[a] = loads[b] /\ a < b)

\* the first node of sorted(remaining_nodes, key=...)
FirstNode(remaining, loads) ==
  CHOOSE n \in remaining : \A m \in remaining \ {n} : LoadLess(loads, n, m)

\* sorted_nodes[:k]
RECURSIVE SelectedNodes(_, _, _)
SelectedNodes(remaining, loads, k) ==
  IF k = 0 \/ remaining = {} THEN {}
  ELSE LET n == FirstNode(remaining, loads)
       IN {n} \cup SelectedNodes(remaining \ {n}, loads, k - 1)

\* for node in selected_nodes: AddJobToNode(node)
RECURSIVE AddJobToNodes(_, _)
AddJobToNodes(pc, selected) ==
  IF selected = {} THEN pc
  ELSE LET n == CHOOSE m \in selected : TRUE
       IN AddJobToNodes(AddJobToNode(pc, n), selected \ {n})

\* for node in job.allocation: RemoveJobFromNode(node)
RECURSIVE RemoveJobFromNodes(_, _)
RemoveJobFromNodes(pc, nodes) ==
  IF nodes = {} THEN pc
  ELSE LET n == CHOOSE m \in nodes : TRUE
       IN RemoveJobFromNodes(RemoveJobFromNode(pc, n), nodes \ {n})

\* (the pool taken from every node of the platform, whatever its state)
PoolNodesAll(nst) == Nodes

\* available_nodes = self.power_controller.GetAvailableNodes()
PoolNodes(nst) == GetAvailableNodes(nst)

\* (the selected nodes left in the pool)
RemainingAfterSame(remaining, selected) == remaining

\* remaining_nodes = [n for n in remaining_nodes if n not in selected_nodes]
RemainingAfter(remaining, selected) == remaining \ selected

\* (the size test left out: every job is placed on what is left)
FitsAlways(r, remaining) == TRUE

\* (a job asking for exactly the nodes that remain left waiting)
FitsStrictly(r, remaining) == r < Cardinality(remaining)

\* if job.requested_resources <= len(remaining_nodes)
Fits(r, remaining) == r <= Cardinality(remaining)

\* (the job that does not fit put at the front of the new queue)
RequeueFront(waiting, job) == <<job>> \o waiting

\* self.waiting_jobs.append(job)
Requeue(waiting, job) == Append(waiting, job)

\* one iteration of "for job in waiting_jobs_copy"
ScheduleStep(s, job, rq) ==
  IF Fits(rq[job], s.remaining)
    THEN LET selected == SelectedNodes(s.remaining, s.loads, rq[job])
         IN [s EXCEPT !.alloc[job] = selected,
                      !.pc = AddJobToNodes(s.pc, selected),
                      !.loads = [n \in DOMAIN s.loads |->
                                   IF n \in selected THEN s.loads[n] + 1 ELSE s.loads[n]],
                      !.remaining = RemainingAfter(s.remaining, selected),
                      !.batch = Append(s.batch, job),
                      !.running = Append(s.running, job)]
    ELSE [s EXCEPT !.waiting = Requeue(s.waiting, job)]

\* (strict FCFS: the walk stops at the first job that does not fit)
RECURSIVE ScheduleLoopBlocking(_, _, _)
ScheduleLoopBlocking(s, queue, rq) ==
  IF queue = <<>> THEN s
  ELSE IF Fits(rq[Head(queue)], s.remaining)
         THEN ScheduleLoopBlocking(ScheduleStep(s, Head(queue), rq), Tail(queue), rq)
         ELSE [s EXCEPT !.waiting = s.waiting \o queue]

\* for job in waiting_jobs_copy
RECURSIVE ScheduleLoop(_, _, _)
ScheduleLoop(s, queue, rq) ==
  IF queue = <<>> THEN s
  ELSE ScheduleLoop(ScheduleStep(s, Head(queue), rq), Tail(queue), rq)

\* (the queue not emptied before the walk)
ClearedQueueKept(wq) == wq

\* waiting_jobs_copy = self.waiting_jobs.copy(); self.waiting_jobs = []
ClearedQueue(wq) == <<>>

\* (the early return left out)
QueueEmptyNever(wq) == FALSE

\* if not self.waiting_jobs: return
QueueEmpty(wq) == wq = <<>>

\* the whole pass, on the scheduler's and the controller's state
try_schedule_jobs(wq, rn, al, pc, rq) ==
  LET same == [waiting |-> wq, running |-> rn, alloc |-> al, pc |-> pc,
               batch |-> <<>>, abort |-> FALSE]
      available_nodes == PoolNodes(pc.nst)
  IN IF QueueEmpty(wq) THEN same
     ELSE IF available_nodes = {} THEN [same EXCEPT !.abort = TRUE]
     ELSE LET s0 == [waiting |-> ClearedQueue(wq), running |-> rn, alloc |-> al, pc |-> pc,
                     loads |-> [n \in available_nodes |-> GetNodeJobCount(pc.cnt, n)],
                     remaining |-> available_nodes, batch |-> <<>>]
              s == ScheduleLoop(s0, wq, rq)
          IN [waiting |-> s.waiting, running |-> s.running, alloc |-> s.alloc,
              pc |-> s.pc, batch |-> s.batch, abort |-> FALSE]

\* (execute_jobs called at the end of every pass, with or without jobs)
AfterPassAlwaysExecutes(r) ==
  /\ waiting_jobs' = r.waiting
  /\ running_jobs' = r.running
  /\ allocation' = r.alloc
  /\ node_state' = r.pc.nst
  /\ job_count' = r.pc.cnt
  /\ exec_log' = Append(exec_log, r.batch)
  /\ phase' = IF r.abort THEN "Aborted" ELSE phase

\* the state a pass leaves: the lists, the allocations, the nodes, the
\* execute_jobs request (only when a job was placed) and the failed assertion
AfterPass(r) ==
  /\ waiting_jobs' = r.waiting
  /\ running_jobs' = r.running
  /\ allocation' = r.alloc
  /\ node_state' = r.pc.nst
  /\ job_count' = r.pc.cnt
  /\ exec_log' = IF r.batch # <<>> THEN Append(exec_log, r.batch) ELSE exec_log
  /\ phase' = IF r.abort THEN "Aborted" ELSE phase

(***************************************************************************)
(* The callbacks.                                                          *)
(***************************************************************************)
Init ==
  /\ phase = "NotStarted"
  /\ now = 0
  /\ pending_call = {}
  /\ last_power_check = 0
  /\ simulation_started = FALSE
  /\ waiting_jobs = <<>>
  /\ running_jobs = <<>>
  /\ req = [j \in Jobs |-> 0]
  /\ allocation = [j \in Jobs |-> {}]
  /\ node_state = [n \in Nodes |-> IDLE]
  /\ job_count = [n \in Nodes |-> 0]
  /\ rejected = <<>>
  /\ exec_log = <<>>
  /\ done = {}
  /\ dups = 0
  /\ nb_records = 0
  /\ written = <<>>
  /\ wake_requests = <<>>
  /\ last_energy = 0
  /\ last_energy_time = 0
  /\ current_power = <<0, 1>>
  /\ nb_reports = 0

\* (the first callback asked for by the scheduler itself)
FirstRecordRequestMade(t) == <<t + record_interval>>

\* "# self.schedule_next_record()": the call is commented out, the handler
\* asks for no callback
FirstRecordRequest(t) == <<>>

\* onSimulationBegins: the controller is created and the timers start.  The
\* scheduler does not ask for the first callback itself (the call is commented
\* out): the first requested call is the engine's, one record_interval in.
onSimulationBegins ==
  /\ phase = "NotStarted"
  /\ phase' = "Running"
  /\ last_power_check' = now
  /\ simulation_started' = FALSE
  /\ node_state' = [n \in Nodes |-> IDLE]
  /\ job_count' = [n \in Nodes |-> 0]
  /\ wake_requests' = FirstRecordRequest(now)
  /\ pending_call' = {now + record_interval} \cup SeqToSet(wake_requests')
  /\ UNCHANGED <<now, waiting_jobs, running_jobs, req, allocation, rejected, exec_log,
                 done, dups, nb_records, energy_vars>>
  /\ written' = <<>>

\* (the next callback asked for one power-check interval later)
NextRecordTimeLong(t) == t + power_check_interval

\* schedule_next_record: next_check = self.bs.time() + self.record_interval
NextRecordTime(t) == t + record_interval

\* (the check due only strictly after the interval)
PowerCheckDueStrict(t, last) == t > last + power_check_interval

\* if current_time >= self.last_power_check + self.power_check_interval
PowerCheckDue(t, last) == t >= last + power_check_interval

\* (the row written before the power actions of the tick)
RecordedStatesBefore(before, after) == before

\* ExecutePowerActions() comes before RecordSystemState(...) in the callback:
\* the row counts the node states the power actions leave
RecordedStates(before, after) == after

\* (the early return left out: the callback is always requested again)
StopCallbacksNever(started, rn, wq) == FALSE

\* if self.simulation_started and not (self.running_jobs or self.waiting_jobs)
StopCallbacks(started, rn, wq) == started /\ ~(rn # <<>> \/ wq # <<>>)

\* onRequestedCall, delivered for the requested call at time t, late after it
onRequestedCall(t, late, plan) ==
  /\ phase = "Running"
  /\ t \in pending_call
  /\ nb_records < MaxTicks
  /\ now' = (IF t > now THEN t ELSE now) + late
  /\ IF PowerCheckDue(now', last_power_check)
       THEN /\ plan \in Plans(node_state)
            /\ node_state' = ExecutePowerActions(node_state, plan)
            /\ last_power_check' = now'
       ELSE /\ plan = [n \in Nodes |-> "none"]
            /\ UNCHANGED <<node_state, last_power_check>>
  /\ nb_records' = nb_records + 1
  /\ written' = <<RecordSystemState(now', running_jobs, waiting_jobs, current_power,
                                      RecordedStates(node_state, node_state'))>>
  /\ wake_requests' = IF StopCallbacks(simulation_started, running_jobs, waiting_jobs)
                        THEN <<>>
                        ELSE <<NextRecordTime(now')>>
  /\ pending_call' = (pending_call \ {t}) \cup SeqToSet(wake_requests')
  /\ UNCHANGED <<phase, sched_vars, job_count, energy_vars>>

\* (the capacity check left out)
OversizedNever(r) == FALSE

\* if job.requested_resources > self.bs.nb_resources
Oversized(r) == r > NumNodes

\* onJobSubmission: the engine submits the next job, asking for r nodes
onJobSubmission(j, r) ==
  /\ phase = "Running"
  /\ req[j] = 0
  /\ \A k \in Jobs : k < j => req[k] # 0
  /\ simulation_started' = TRUE
  /\ IF Oversized(r)
       THEN /\ req' = [req EXCEPT ![j] = r]
            /\ rejected' = Append(rejected, j)
            /\ UNCHANGED <<phase, waiting_jobs, running_jobs, allocation, exec_log,
                           node_vars>>
       ELSE /\ req' = [req EXCEPT ![j] = r]
            /\ UNCHANGED rejected
            /\ AfterPass(try_schedule_jobs(Append(waiting_jobs, j), running_jobs, allocation,
                                           [nst |-> node_state, cnt |-> job_count], req'))
  /\ UNCHANGED <<now, done, dups, timer_vars, energy_vars>>
  /\ written' = <<>>
  /\ wake_requests' = <<>>

\* if job in self.running_jobs: self.running_jobs.remove(job)
RunningAfterCompletion(rn, j) == RemoveFirst(rn, j)

\* onJobCompletion
onJobCompletion(j) ==
  /\ phase = "Running"
  /\ done' = done \cup {j}
  /\ AfterPass(try_schedule_jobs(waiting_jobs, RunningAfterCompletion(running_jobs, j),
                                 allocation,
                                 RemoveJobFromNodes([nst |-> node_state, cnt |-> job_count],
                                                    allocation[j]),
                                 req))
  /\ UNCHANGED <<now, req, rejected, simulation_started, timer_vars, energy_vars>>
  /\ written' = <<>>
  /\ wake_requests' = <<>>

\* the engine completes a running job
Complete ==
  \E j \in Jobs : j \in SeqToSet(running_jobs) /\ j \notin done
                  /\ onJobCompletion(j) /\ UNCHANGED dups

\* the engine delivers the completion of a job a second time
CompleteAgain ==
  \E j \in done : dups < MaxDup /\ onJobCompletion(j) /\ dups' = dups + 1

\* (an assertion that passes)
KillAssertionPasses == TRUE

\* assert False, "onJobKilled is called"
KillAssertion == FALSE

\* onJobKilled: the assertion fails before anything else; the lines after it
\* take the job out of running_jobs and release its nodes
onJobKilled(j) ==
  /\ phase = "Running"
  /\ IF ~KillAssertion
       THEN /\ phase' = "Aborted"
            /\ UNCHANGED <<running_jobs, node_vars>>
       ELSE /\ phase' = phase
            /\ running_jobs' = RemoveFirst(running_jobs, j)
            /\ LET pc == RemoveJobFromNodes([nst |-> node_state, cnt |-> job_count],
                                            allocation[j])
               IN node_state' = pc.nst /\ job_count' = pc.cnt
  /\ written' = <<>>
  /\ wake_requests' = <<>>
  /\ UNCHANGED <<now, waiting_jobs, req, allocation, rejected, exec_log, done, dups,
                 simulation_started, timer_vars, energy_vars>>

\* the engine kills a running job
Kill == \E j \in Jobs : j \in SeqToSet(running_jobs) /\ onJobKilled(j)

\* (the reported state written to the machines without asking the controller)
StateChangesDirect(nst, machines, new_state) ==
  [n \in Nodes |-> IF n \in machines THEN new_state ELSE nst[n]]

\* for machine in machines: HandleStateTransitionComplete(machine, new_pstate)
RECURSIVE StateChanges(_, _, _)
StateChanges(nst, machines, new_state) ==
  IF machines = {} THEN nst
  ELSE LET m == CHOOSE x \in machines : TRUE
       IN StateChanges(HandleStateTransitionComplete(nst, m, new_state),
                       machines \ {m}, new_state)

\* onMachinePStateChanged
onMachinePStateChanged(machines, new_state) ==
  /\ phase = "Running"
  /\ node_state' = StateChanges(node_state, machines, new_state)
  /\ UNCHANGED <<phase, now, sched_vars, job_count, timer_vars, energy_vars>>
  /\ written' = <<>>
  /\ wake_requests' = <<>>

\* energy_diff / time_diff
Power(energy_diff, time_diff) == <<energy_diff, time_diff>>

\* if self.last_energy_time > 0:  (not the first update)
NotFirstUpdate(last_time) == last_time > 0

\* (the power computed whatever the time difference)
TimeAdvancedAlways(time_diff) == TRUE

\* if time_diff > 0
TimeAdvanced(time_diff) == time_diff > 0

\* onReportEnergyConsumed, delivered d after the previous event
onReportEnergyConsumed(consumed_energy, d) ==
  /\ phase = "Running"
  /\ nb_reports < MaxReports
  /\ now' = now + d
  /\ nb_reports' = nb_reports + 1
  /\ current_power' =
       IF NotFirstUpdate(last_energy_time) /\ TimeAdvanced(now' - last_energy_time)
         THEN Power(consumed_energy - last_energy, now' - last_energy_time)
         ELSE current_power
  /\ last_energy' = consumed_energy
  /\ last_energy_time' = now'
  /\ UNCHANGED <<phase, sched_vars, node_vars, timer_vars>>
  /\ written' = <<>>
  /\ wake_requests' = <<>>

Submit == \E j \in Jobs, r \in ReqSizes : onJobSubmission(j, r)
SubmitFew == \E j \in PowerJobs, r \in PowerReqSizes : onJobSubmission(j, r)
Tick == \E t \in pending_call, late \in Lateness, plan \in Plans(node_state) :
          onRequestedCall(t, late, plan)
\* the machines that wait for the acknowledgment of a transition to new_state
Awaiting(new_state) == {n \in Nodes : node_state[n] \in PendingFor(new_state)}

\* the engine acknowledges a transition for the machines that wait for it, or
\* reports the new state for every machine, waiting for it or not
PStateChanged ==
  \E new_state \in {SLEEPING, IDLE, POWERED_OFF} :
    \E machines \in {Awaiting(new_state), Nodes} :
      onMachinePStateChanged(machines, new_state)
\* the engine reports the energy consumed since the start, which never decreases
EnergyReport ==
  \E e \in EnergyValues, d \in ClockSteps :
    e >= last_energy /\ onReportEnergyConsumed(e, d)

\* the engine submits one job only
SubmitOne == \E r \in PowerReqSizes : onJobSubmission(1, r)
\* the engine reports the energy one record interval after the event before:
\* 600 more than the last report, a steady 10 W
ReportSteady == onReportEnergyConsumed(last_energy + 600, record_interval)

\* every event the engine delivers
Next ==
  \/ onSimulationBegins
  \/ Submit
  \/ Complete
  \/ CompleteAgain
  \/ Tick
  \/ PStateChanged
  \/ EnergyReport
Spec == Init /\ [][Next]_vars

\* the scheduler on a cluster whose nodes are never powered down
NextJobs == onSimulationBegins \/ Submit \/ Complete \/ CompleteAgain
SpecJobs == Init /\ [][NextJobs]_vars

\* the scheduler under job events, kills included, on nodes that stay up
NextKill == onSimulationBegins \/ Submit \/ Complete \/ Kill
SpecKill == Init /\ [][NextKill]_vars

\* one job whose completion may be delivered twice, on nodes that the power
\* checks put to sleep or power off
NextDup == onSimulationBegins \/ SubmitOne \/ Complete \/ CompleteAgain \/ Tick
SpecDup == Init /\ [][NextDup]_vars

\* the snapshot rows: one job, the timer and the energy meter, on nodes whose
\* transitions are never acknowledged
NextRecord == onSimulationBegins \/ SubmitOne \/ Complete \/ Tick \/ ReportSteady
SpecRecord == Init /\ [][NextRecord]_vars

\* the scheduler and the power controller: job, timer and hardware events,
\* every completion delivered once
NextPower == onSimulationBegins \/ SubmitFew \/ Complete \/ Tick \/ PStateChanged
SpecPower == Init /\ [][NextPower]_vars

\* one job, the timer and the hardware events when the engine keeps its
\* promises: every running job completes, every requested transition is
\* acknowledged, every requested call is delivered
NextLive == onSimulationBegins \/ SubmitOne \/ Complete \/ Tick \/ PStateChanged
SpecLive ==
  /\ Init /\ [][NextLive]_vars
  /\ WF_vars(Complete) /\ WF_vars(PStateChanged) /\ WF_vars(Tick)

\* the energy meter under energy reports
NextEnergy == onSimulationBegins \/ EnergyReport
SpecEnergy == Init /\ [][NextEnergy]_vars

(***************************************************************************)
(* Properties.                                                             *)
(***************************************************************************)
RECURSIVE SumOver(_, _)
SumOver(f, S) ==
  IF S = {} THEN 0
  ELSE LET x == CHOOSE y \in S : TRUE IN f[x] + SumOver(f, S \ {x})

Waiting == SeqToSet(waiting_jobs)
Running == SeqToSet(running_jobs)
Submitted == {j \in Jobs : req[j] # 0}
Occurrences(q, j) == Cardinality({i \in 1 .. Len(q) : q[i] = j})

\* the step is a submission of job j
SubmissionOf(j) == req[j] = 0 /\ req'[j] # 0
\* the step is a completion event
CompletionStep == done' # done \/ dups' # dups
\* the step is a periodic callback
TickStep == nb_records' = nb_records + 1
\* the step is an energy report
ReportStep == nb_reports' = nb_reports + 1

\* C1: capacity invariant: the job counts of all nodes add up to the
\* requested resources of all running jobs, and no job count is negative.
C1_CapacityInvariant ==
  /\ \A n \in Nodes : job_count[n] >= 0
  /\ SumOver(job_count, Nodes) = SumOver(req, Running)

\* C2 (as stated): any two distinct running jobs have disjoint allocations,
\* also when they were placed by different passes.
C2_DisjointAllocation ==
  \A j, k \in Running : j # k => allocation[j] \cap allocation[k] = {}

\* C2 (amended): any two distinct jobs placed by the same pass (one
\* execute_jobs batch) have disjoint allocations.
C2_DisjointWithinPass ==
  \A b \in 1 .. Len(exec_log) :
    \A j, k \in SeqToSet(exec_log[b]) : j # k => allocation[j] \cap allocation[k] = {}

C2_Witness ==
  \E b \in 1 .. Len(exec_log) : Len(exec_log[b]) >= 2

\* C3: admission control: a job that asks for more nodes than the cluster has
\* is rejected by one reject_jobs request, is never in the waiting queue, the
\* running set or an execute_jobs batch, and its submission leaves the
\* waiting queue as it was.
C3_Inv ==
  \A j \in Jobs :
    req[j] > NumNodes =>
      /\ j \notin Waiting
      /\ j \notin Running
      /\ Occurrences(rejected, j) = 1
      /\ \A b \in 1 .. Len(exec_log) : j \notin SeqToSet(exec_log[b])
      /\ allocation[j] = {}

C3_AdmissionControl ==
  /\ []C3_Inv
  /\ [][\A j \in Jobs : SubmissionOf(j) /\ req'[j] > NumNodes =>
          waiting_jobs' = waiting_jobs /\ running_jobs' = running_jobs]_vars

C3_Witness ==
  \E j \in Jobs : req[j] = 10 /\ Occurrences(rejected, j) = 1 /\ waiting_jobs # <<>>

\* the 4-node scenario: A = job 1 asks for 2, B = job 2 asks for 3,
\* C = job 3 asks for 1; nothing completes and no node is powered down
AllIdle == \A n \in Nodes : node_state[n] = IDLE /\ job_count[n] = 0
AfterA ==
  /\ NumNodes = 4 /\ done = {} /\ req = [j \in Jobs |-> IF j = 1 THEN 2 ELSE 0]
  /\ running_jobs = <<1>> /\ waiting_jobs = <<>> /\ allocation[1] = {0, 1}
  /\ \A n \in Nodes : node_state[n] = (IF n \in {0, 1} THEN COMPUTING ELSE IDLE)
  /\ \A n \in Nodes : job_count[n] = (IF n \in {0, 1} THEN 1 ELSE 0)
SubmitA == NumNodes = 4 /\ AllIdle /\ Submitted = {} /\ SubmissionOf(1) /\ req'[1] = 2
SubmitB == AfterA /\ SubmissionOf(2) /\ req'[2] = 3
SubmitC == done = {} /\ NumNodes = 4 /\ req[1] = 2 /\ req[2] = 3 /\ SubmissionOf(3) /\ req'[3] = 1
          /\ GetAvailableNodes(node_state) = Nodes /\ allocation[1] = {0, 1}

\* C4 (as stated): A gets {0,1}; B stays in the waiting queue after its
\* submission; C gets {2} while B is still waiting.
C4_SkipAheadScenario ==
  [][/\ SubmitA => allocation'[1] = {0, 1}
     /\ SubmitB => waiting_jobs' = <<2>> /\ allocation'[2] = {}
     /\ SubmitC /\ 2 \in Waiting => allocation'[3] = {2} /\ 2 \in SeqToSet(waiting_jobs')]_vars

\* C4 (amended): A gets {0,1}; B is placed at once on {0,2,3}, sharing node 0
\* with A; C is then placed at once on {1}; nothing waits.
C4_SharedNodeScenario ==
  [][/\ SubmitA => allocation'[1] = {0, 1} /\ running_jobs' = <<1>>
     /\ SubmitB => allocation'[2] = {0, 2, 3} /\ running_jobs' = <<1, 2>>
                   /\ waiting_jobs' = <<>>
     /\ SubmitC /\ running_jobs = <<1, 2>> /\ allocation[2] = {0, 2, 3}
          => allocation'[3] = {1} /\ running_jobs' = <<1, 2, 3>> /\ waiting_jobs' = <<>>]_vars

C4_Witness ==
  /\ NumNodes = 4 /\ done = {} /\ req[1] = 2 /\ req[2] = 3 /\ req[3] = 1
  /\ running_jobs = <<1, 2, 3>>
  /\ allocation[1] = {0, 1} /\ allocation[2] = {0, 2, 3} /\ allocation[3] = {1}
  /\ exec_log = <<<<1>>, <<2>>, <<3>>>>

\* the queue a pass of this step walks, <<>> when the step runs no pass
PassQueue ==
  IF \E j \in Jobs : SubmissionOf(j) /\ rejected' = rejected
    THEN Append(waiting_jobs, CHOOSE j \in Jobs : SubmissionOf(j))
    ELSE IF CompletionStep THEN waiting_jobs ELSE <<>>

\* the pool left when the pass of this step reaches position i of its queue:
\* the available nodes less the nodes given to the jobs placed before it
PoolAtTurn(q, i) ==
  GetAvailableNodes(node_state) \
    UNION {allocation'[q[h]] : h \in {g \in 1 .. (i - 1) : q[g] \in SeqToSet(running_jobs')}}

\* C5: no head-of-line blocking: in one pass a waiting job that fits the pool
\* left at its turn is placed, whatever happened to the jobs before it.
C5_NoHeadOfLineBlocking ==
  [][\A i \in 1 .. Len(PassQueue) :
       req'[PassQueue[i]] <= Cardinality(PoolAtTurn(PassQueue, i))
         => /\ PassQueue[i] \in SeqToSet(running_jobs')
            /\ PassQueue[i] \notin SeqToSet(waiting_jobs')
            /\ Cardinality(allocation'[PassQueue[i]]) = req'[PassQueue[i]]]_vars

\* a job is running (or ran) although a job submitted before it still waits
C5_Witness ==
  \E w \in Waiting : \E b \in 1 .. Len(exec_log) : \E r \in SeqToSet(exec_log[b]) : r > w

\* C6: power metering: a report that is not the first one and comes later
\* than the previous one sets current_power to the energy difference over
\* the time difference; the first report leaves current_power at 0.
C6_PowerMetering ==
  [][ReportStep =>
       /\ nb_reports >= 1 /\ now' > last_energy_time =>
            current_power'[1] * (now' - last_energy_time)
              = (last_energy' - last_energy) * current_power'[2]
       /\ nb_reports = 0 => current_power' = <<0, 1>>]_vars

\* C7: idle shutdown: once a job has been submitted, a tick that finds the
\* waiting queue and the running set empty requests no wake-up, and from
\* then on no requested call is pending.
C7_IdleShutdown ==
  [][/\ TickStep /\ Submitted # {} /\ waiting_jobs = <<>> /\ running_jobs = <<>>
          => pending_call' = {}
     /\ phase = "Running" /\ pending_call = {} => pending_call' = {}]_vars

C7_Witness ==
  /\ phase = "Running" /\ nb_records >= 1 /\ pending_call = {}
  /\ \E j \in Jobs : j \in done

\* a job has been queued (admitted, not rejected) so far
Admitted == \E j \in Submitted : req[j] <= NumNodes

\* C8 (as stated): a tick stops the timer only if a job has been admitted
\* (queued, not rejected) and both collections are empty; in every other
\* case it re-arms the timer for now + record_interval.
C8_RearmUnlessAdmitted ==
  [][TickStep =>
       pending_call' = IF Admitted /\ waiting_jobs = <<>> /\ running_jobs = <<>>
                         THEN {} ELSE {now' + record_interval}]_vars

\* C8 (amended): a tick stops the timer only if a job submission has been
\* received (queued or rejected) and both collections are empty; in every
\* other case it re-arms the timer for now + record_interval.
C8_RearmUnlessSubmitted ==
  [][TickStep =>
       pending_call' = IF Submitted # {} /\ waiting_jobs = <<>> /\ running_jobs = <<>>
                         THEN {} ELSE {now' + record_interval}]_vars

\* the timer stopped although every job submitted so far was rejected
C8_Witness ==
  /\ phase = "Running" /\ nb_records >= 1 /\ pending_call = {}
  /\ Submitted # {} /\ ~Admitted

\* the edges of the node power-state machine
LegalEdges ==
  {<<IDLE, SWITCHING_TO_SLEEP>>, <<SWITCHING_TO_SLEEP, SLEEPING>>,
   <<SLEEPING, WAKING_FROM_SLEEP>>, <<WAKING_FROM_SLEEP, IDLE>>,
   <<IDLE, POWERING_OFF>>, <<SLEEPING, POWERING_OFF>>, <<POWERING_OFF, POWERED_OFF>>,
   <<POWERED_OFF, POWERING_ON>>, <<POWERING_ON, IDLE>>,
   <<IDLE, COMPUTING>>, <<COMPUTING, IDLE>>}

\* C9: state-machine legality: every change of a node's power state is one
\* of the enumerated edges.
C9_LegalTransitions ==
  [][\A n \in Nodes :
       node_state'[n] # node_state[n] => <<node_state[n], node_state'[n]>> \in LegalEdges]_vars

C9_Witness ==
  /\ \E n \in Nodes : node_state[n] = POWERING_ON
  /\ \E n \in Nodes : node_state[n] = COMPUTING
  /\ \E n \in Nodes : node_state[n] = IDLE

\* C10: node invariant: a node holds a job exactly when it is COMPUTING, and
\* a sleep or power-off is never requested for a node that holds a job.
C10_Inv == \A n \in Nodes : job_count[n] > 0 <=> node_state[n] = COMPUTING

C10_NodeInvariant ==
  /\ []C10_Inv
  /\ [][\A n \in Nodes :
          node_state'[n] # node_state[n] /\ node_state'[n] \in {SWITCHING_TO_SLEEP, POWERING_OFF}
            => job_count[n] = 0 /\ job_count'[n] = 0]_vars

C10_Witness ==
  /\ \E n \in Nodes : job_count[n] >= 2 /\ node_state[n] = COMPUTING
  /\ \E n \in Nodes : node_state[n] \in {SWITCHING_TO_SLEEP, POWERING_OFF}

\* C11: the zero-available-nodes assertion is unreachable: no pass starts
\* with a non-empty waiting queue while GetAvailableNodes() is empty, so the
\* scheduler never aborts.
C11_AssertUnreachable == phase # "Aborted"

\* the step delivers, a second time, the completion of a job that has left
\* the running set
DuplicateCompletion == dups' = dups + 1

\* C12: tolerance of duplicated completions: a job-completed event for a job
\* that is not in the running set is not fatal and leaves every node's
\* job_count and power state, the waiting queue and the running set unchanged.
C12_DuplicateIgnored ==
  [][DuplicateCompletion
       => /\ phase' = phase
          /\ UNCHANGED <<job_count, node_state, waiting_jobs, running_jobs>>]_vars

\* the states of a requested transition that is not acknowledged yet
PendingStates == {SWITCHING_TO_SLEEP, WAKING_FROM_SLEEP, POWERING_OFF, POWERING_ON}

\* the step is a pstate-changed event that resolves some transition
PStateStep ==
  /\ phase = "Running"
  /\ ~(TickStep \/ CompletionStep \/ ReportStep \/ \E j \in Jobs : SubmissionOf(j))
  /\ node_state' # node_state

\* C13: a pstate-changed event for a node that is not in the pending state
\* matching the reported state is not fatal and leaves that node's power
\* state and job_count unchanged: the event changes only nodes that were in
\* the pending state of the one state it reports.
C13_StrayAckIgnored ==
  [][PStateStep
       => /\ phase' = phase
          /\ job_count' = job_count
          /\ \E new_state \in {SLEEPING, IDLE, POWERED_OFF} :
               \A n \in Nodes :
                 node_state[n] \notin PendingFor(new_state) \/ node_state'[n] # new_state
                   => node_state'[n] = node_state[n]]_vars

\* no job was ever submitted; the highest node was put to sleep and woken
\* again, and the report of IDLE that resolved its wake-up found the node
\* below it asleep
C13_Witness ==
  /\ Submitted = {}
  /\ node_state[NumNodes - 1] = IDLE
  /\ node_state[NumNodes - 2] = SLEEPING

\* the step is a job submission
SubmissionStep == \E j \in Jobs : SubmissionOf(j)

\* C14: pending states wait for the acknowledgment: a node in a pending state
\* changes state only to the state its transition leads to, never in a tick,
\* a job submission or a job completion; it is not among the available nodes
\* and no job is placed on it.
C14_PendingWaitsForAck ==
  [][\A n \in Nodes :
       node_state[n] \in PendingStates
         => /\ TickStep \/ SubmissionStep \/ CompletionStep => node_state'[n] = node_state[n]
            /\ node_state'[n] # node_state[n] => node_state[n] \in PendingFor(node_state'[n])
            /\ n \notin GetAvailableNodes(node_state)
            /\ job_count'[n] = job_count[n]
            /\ \A j \in Jobs : allocation'[j] # allocation[j] => n \notin allocation'[j]]_vars

\* a job was placed although a job submitted before it still waits, and a
\* node is still in a pending state
C14_Witness ==
  /\ \E n \in Nodes : node_state[n] \in PendingStates
  /\ \E w \in Waiting : \E r \in Running : r > w

C16_PowerCheckCadence ==
  [][TickStep =>
       IF now' - last_power_check >= power_check_interval
         THEN last_power_check' = now'
         ELSE last_power_check' = last_power_check /\ node_state' = node_state]_vars

\* a tick exactly one interval after the start ran the power check and put a
\* node to sleep, and the tick after it, 60 later, ran none
C16_Witness ==
  /\ nb_records = 2 /\ last_power_check = power_check_interval
  /\ now = power_check_interval + record_interval
  /\ \E n \in Nodes : node_state[n] = SWITCHING_TO_SLEEP

\* the step is a periodic callback: only a callback takes the delivered call
\* out of the engine's requested calls
TimerStep == phase = "Running" /\ pending_call' # pending_call

\* the row RecordSystemState writes from the state the step leaves
RowAfterStep ==
  [datetime |-> now', running_jobs |-> Len(running_jobs'),
   waiting_jobs |-> Len(waiting_jobs'), power |-> current_power',
   nb |-> [s \in NodeStates |-> Cardinality({n \in Nodes : node_state'[n] = s})]]

\* C17: every periodic tick, the idle-shutdown tick included, records exactly
\* one snapshot row, written after the tick's power actions, with the
\* current running set, waiting queue and current_power; no other event
\* records a row.
C17_OneRowPerTick ==
  [][IF TimerStep
       THEN nb_records' = nb_records + 1 /\ written' = <<RowAfterStep>>
       ELSE nb_records' = nb_records /\ written' = <<>>]_vars

\* the idle-shutdown tick ran a power check and wrote the row: the meter
\* shows a power above 0 and a node is on its way to sleep
C17_Witness ==
  /\ pending_call = {} /\ 1 \in done /\ last_power_check = now
  /\ written # <<>>
  /\ written[1].datetime = now /\ written[1].power[1] > 0
  /\ written[1].nb[SWITCHING_TO_SLEEP] > 0

\* C18: every energy report sets last_energy and last_energy_time to the
\* reported values; a report whose time is not greater than last_energy_time
\* leaves current_power unchanged; an energy report changes no queue, node or
\* timer state.
C18_ReportFrame ==
  [][\A e \in EnergyValues : \A d \in ClockSteps :
       onReportEnergyConsumed(e, d)
         => /\ last_energy' = e
            /\ last_energy_time' = now + d
            /\ now + d <= last_energy_time => current_power' = current_power
            /\ UNCHANGED <<phase, waiting_jobs, running_jobs, allocation, rejected, exec_log,
                           node_state, job_count, pending_call, last_power_check,
                           nb_records>>
            /\ written' = <<>>]_vars

\* three reports by time 120, one of them at the time of the report before
\* it: the power is the 600 over 60 of the one report that came later than
\* its predecessor, the energy is the last one reported
C18_Witness ==
  /\ nb_reports = 3 /\ now = 120 /\ last_energy_time = 120
  /\ last_energy = 1200 /\ current_power = <<600, 60>>

\* C19: AddJobToNode and RemoveJobFromNode are called only on nodes that are
\* COMPUTING or IDLE at the moment of the call: every node given to a job is
\* among the available nodes of the pass, and every node released by a
\* job-completed event is still COMPUTING.
C19_CallsOnAwakeNodes ==
  [][/\ \A j \in Jobs :
          allocation'[j] # allocation[j] => allocation'[j] \subseteq GetAvailableNodes(node_state)
     /\ \A j \in Jobs :
          onJobCompletion(j) => \A n \in allocation[j] : node_state[n] = COMPUTING]_vars

\* the jobs of queue q that the step placed, in queue order
PlacedSeq(q, rn) == SelectSeq(q, LAMBDA j : j \in SeqToSet(rn))

\* the job whose completion the step delivers for the first time
CompletedNow == done' \ done

\* the load of node n when the pass of this step starts: its job count, less
\* the job the completion of this step takes off it
CountAtPassStart(n) ==
  IF \E j \in CompletedNow : n \in allocation[j] THEN job_count[n] - 1 ELSE job_count[n]

\* the load of node n when the pass reaches position i of its queue
LoadAtTurn(q, i, n) ==
  CountAtPassStart(n)
    + Cardinality({h \in 1 .. (i - 1) :
                     q[h] \in SeqToSet(running_jobs') /\ n \in allocation'[q[h]]})

\* (load, node id) ascending
KeyBefore(q, i, a, b) ==
  \/ LoadAtTurn(q, i, a) < LoadAtTurn(q, i, b)
  \/ LoadAtTurn(q, i, a) = LoadAtTurn(q, i, b) /\ a < b

\* C20: determinism: the requests of a step are a function of the state and
\* the event.  A job of the pass is placed exactly when it fits the pool left
\* at its turn, on the one set of that many nodes that come first by (load,
\* node id); the execute_jobs request is the placed jobs in queue order, and
\* the reject_jobs request is the oversized job of the submission.
C20_Determinism ==
  [][/\ \A i \in 1 .. Len(PassQueue) :
          LET j == PassQueue[i]
              pool == PoolAtTurn(PassQueue, i)
          IN /\ j \in SeqToSet(running_jobs') <=> req'[j] <= Cardinality(pool)
             /\ j \in SeqToSet(running_jobs')
                  => /\ allocation'[j] \subseteq pool
                     /\ Cardinality(allocation'[j]) = req'[j]
                     /\ \A a \in allocation'[j] : \A b \in pool \ allocation'[j] :
                          KeyBefore(PassQueue, i, a, b)
     /\ exec_log' = IF PlacedSeq(PassQueue, running_jobs') = <<>> THEN exec_log
                    ELSE Append(exec_log, PlacedSeq(PassQueue, running_jobs'))
     /\ rejected' = IF \E j \in Jobs : SubmissionOf(j) /\ req'[j] > NumNodes
                      THEN Append(rejected, CHOOSE j \in Jobs : SubmissionOf(j))
                      ELSE rejected]_vars

\* job 1 waited for nodes that were powered down and came back; the pass of
\* job 2's submission then placed both: job 1 on the three lowest of four
\* equally loaded nodes, job 2 on the one left
C20_Witness ==
  /\ \E b \in 1 .. Len(exec_log) : exec_log[b] = <<1, 2>>
  /\ allocation[1] = {0, 1, 2} /\ allocation[2] = {3}

\* C21: a job-killed event is a fatal abort on receipt: the run stops and
\* the running set, the waiting queue and every node's job_count (and power
\* state) are as they were.
C21_KillAborts ==
  [][\A j \in Jobs :
       onJobKilled(j)
         => /\ phase' = "Aborted"
            /\ UNCHANGED <<running_jobs, waiting_jobs, job_count, node_state, allocation,
                           exec_log, rejected>>]_vars

\* the run was stopped while a job was running on a node and none waited:
\* no pass can have aborted it, a kill did
C21_Witness ==
  /\ phase = "Aborted" /\ waiting_jobs = <<>>
  /\ \E j \in Running : \A n \in allocation[j] : job_count[n] >= 1

\* C22: a pass on an empty waiting queue is a no-op: a completion that finds
\* the queue empty leaves it empty, places no job, issues no execute_jobs
\* request and does not abort, even when no node is available; the nodes
\* change only by the release of the completed job.
C22_EmptyQueueNoOp ==
  [][CompletionStep /\ waiting_jobs = <<>>
       => /\ phase' = phase
          /\ waiting_jobs' = <<>>
          /\ exec_log' = exec_log
          /\ allocation' = allocation
          /\ SeqToSet(running_jobs') \subseteq Running
          /\ \A n \in Nodes :
               /\ job_count'[n] <= job_count[n]
               /\ node_state'[n] # node_state[n]
                    => node_state[n] = COMPUTING /\ node_state'[n] = IDLE]_vars

\* every node is on its way down after the last tick and nothing waits; the
\* event after that tick was the second delivery of job 1's completion, and
\* the run goes on
C22_Witness ==
  /\ phase = "Running" /\ 1 \in done /\ dups = 1 /\ waiting_jobs = <<>>
  /\ nb_records = MaxTicks /\ written = <<>>
  /\ GetAvailableNodes(node_state) = {}

\* the jobs the step moved to the running set
PlacedNow == {j \in Jobs : j \in SeqToSet(running_jobs') /\ j \notin Running}

\* the position of job j in queue q
PositionIn(q, j) == CHOOSE i \in 1 .. Len(q) : q[i] = j

\* C23: least-loaded selection with id tie-break: the allocation of a placed
\* job is the first requested_resources nodes of the pool left at its turn,
\* ordered by (load, node id) ascending: no node left in the pool comes
\* before a chosen node, and of two equally loaded nodes the lower id is
\* chosen first.
C23_LeastLoadedFirst ==
  [][\A j \in PlacedNow :
       LET i == PositionIn(PassQueue, j)
           pool == PoolAtTurn(PassQueue, i)
       IN /\ allocation'[j] \subseteq pool
          /\ Cardinality(allocation'[j]) = req'[j]
          /\ \A a \in allocation'[j] : \A b \in pool \ allocation'[j] :
               /\ ~KeyBefore(PassQueue, i, b, a)
               /\ LoadAtTurn(PassQueue, i, a) = LoadAtTurn(PassQueue, i, b) => a < b]_vars

\* job 3 went to two idle nodes of higher id while lower nodes that already
\* ran jobs were left out, and its last node was taken among equally loaded
\* ones: the lowest of them
C23_Witness ==
  /\ 3 \in Running /\ req[3] = 3
  /\ \E n \in allocation[3] : \E m \in Nodes \ allocation[3] : m < n /\ job_count[m] >= 1
  /\ \E n \in allocation[3] : job_count[n] >= 2

\* the number of jobs placed by the step that got node n
PlacedOn(n) == Cardinality({k \in PlacedNow : n \in allocation'[k]})

\* C24: completion effect: a job-completed event for a running job takes it
\* out of the running set, for good and into no other collection; takes
\* exactly one off the job_count of each node of its allocation; leaves a node
\* whose count reached zero IDLE; and then runs one pass, whose batch is the
\* waiting jobs it placed.
C24_CompletionEffect ==
  /\ [](\A j \in done : j \notin Waiting /\ j \notin Running)
  /\ [][\A j \in CompletedNow :
          j \in Running
            => /\ j \notin SeqToSet(running_jobs') /\ j \notin SeqToSet(waiting_jobs')
               /\ \A n \in Nodes :
                    job_count'[n] = job_count[n] - (IF n \in allocation[j] THEN 1 ELSE 0)
                                      + PlacedOn(n)
               /\ \A n \in allocation[j] : job_count'[n] = 0 => node_state'[n] = IDLE
               /\ exec_log' = IF PlacedNow = {} THEN exec_log
                              ELSE Append(exec_log, PlacedSeq(waiting_jobs, running_jobs'))]_vars

\* C25: no job is in both the waiting queue and the running set, and no job
\* appears more than once in either.
C25_ExclusiveMembership ==
  /\ Waiting \cap Running = {}
  /\ \A j \in Jobs : Occurrences(waiting_jobs, j) <= 1 /\ Occurrences(running_jobs, j) <= 1

\* a pass walked a queue of two, placed one job and kept the other waiting
C25_Witness ==
  /\ Waiting # {} /\ Running # {}
  /\ \E w \in Waiting : \E r \in Running : r > w

\* C26: the waiting queue is a subsequence of the submission order (jobs are
\* submitted in the order of their ids): two waiting jobs appear in the order
\* in which they were submitted.
C26_ArrivalOrder ==
  \A i, k \in 1 .. Len(waiting_jobs) : i < k => waiting_jobs[i] < waiting_jobs[k]

\* two jobs wait, after the pass of the second one's submission walked both
C26_Witness == Len(waiting_jobs) >= 2 /\ phase = "Running"

\* C27: every waiting job has an empty allocation and the allocation of
\* every running job holds exactly requested_resources distinct nodes.
C27_AllocationSize ==
  /\ \A j \in Waiting : allocation[j] = {}
  /\ \A j \in Running : Cardinality(allocation[j]) = req[j] /\ allocation[j] \subseteq Nodes

\* a job that asked for three nodes runs while a job waits
C27_Witness ==
  /\ \E j \in Running : req[j] = 3 /\ Cardinality(allocation[j]) = 3
  /\ Waiting # {}

\* the number of execute_jobs requests that carry job j
TimesExecuted(j) == Cardinality({b \in 1 .. Len(exec_log) : j \in SeqToSet(exec_log[b])})

\* C28: batch execution: a step issues at most one execute_jobs request; it
\* issues none when its pass placed no job, and otherwise one that carries
\* exactly the jobs the pass moved from the waiting queue to the running set,
\* each once; over the whole run a job is sent for execution at most once.
C28_BatchExecution ==
  /\ [](\A j \in Jobs : TimesExecuted(j) <= 1)
  /\ [][IF PlacedNow = {}
          THEN exec_log' = exec_log
          ELSE /\ Len(exec_log') = Len(exec_log) + 1
               /\ SubSeq(exec_log', 1, Len(exec_log)) = exec_log
               /\ SeqToSet(exec_log'[Len(exec_log')]) = PlacedNow
               /\ Len(exec_log'[Len(exec_log')]) = Cardinality(PlacedNow)]_vars

\* two submissions, one request: the submission that left its job waiting
\* sent none, the pass of the next one sent both jobs in one batch
C28_Witness ==
  /\ Len(exec_log) = 1 /\ Len(exec_log[1]) = 2
  /\ Cardinality(Submitted) = 2 /\ rejected = <<>>

\* job j waits although the nodes that are available now are enough for it
WaitsAlthoughFits(j) ==
  /\ phase = "Running" /\ j \in Waiting
  /\ req[j] <= Cardinality(GetAvailableNodes(node_state))

\* C29: no starvation: given that running jobs complete and requested power
\* transitions are acknowledged, every admitted job is eventually moved to
\* the running set; in particular a job that waits is scheduled once enough
\* nodes have become available through a pstate-changed event or a tick,
\* even if no further job is submitted or completed.
C29_NoStarvation ==
  \A j \in Jobs : WaitsAlthoughFits(j) ~> (j \in Running)

\* the step ran a pass that came to its end: a submission that was not
\* rejected, or a completion
PassStep ==
  /\ phase' = "Running"
  /\ CompletionStep \/ \E j \in Jobs : SubmissionOf(j) /\ rejected' = rejected

\* what a second pass would do in the state the step leaves
SecondPass ==
  try_schedule_jobs(waiting_jobs', running_jobs', allocation',
                    [nst |-> node_state', cnt |-> job_count'], req')

\* the second pass changes nothing and sends no request
SecondPassNoOp ==
  /\ SecondPass.waiting = waiting_jobs' /\ SecondPass.running = running_jobs'
  /\ SecondPass.alloc = allocation'
  /\ SecondPass.pc = [nst |-> node_state', cnt |-> job_count']
  /\ SecondPass.batch = <<>> /\ ~SecondPass.abort

\* C30 (as stated): a pass run right after a pass leaves the waiting queue,
\* the running set, the allocations and the job counts as the first pass left
\* them and sends no execute_jobs request.
C30_Idempotent == [][PassStep => SecondPassNoOp]_vars

\* C30 (amended): a pass run right after a pass is a no-op exactly when no
\* job left waiting asks for at most the number of available nodes; when one
\* does, the second pass places it, on nodes the first pass may just have
\* given to another job.
C30_IdempotentUnlessFits ==
  [][PassStep =>
       IF \E w \in SeqToSet(waiting_jobs') :
            req'[w] <= Cardinality(GetAvailableNodes(node_state'))
         THEN SecondPass.batch # <<>> /\ ~SecondPass.abort
         ELSE SecondPassNoOp]_vars

\* a pass placed job 1 and left job 2 waiting, with a node asleep or off; a
\* second pass would find the same: job 2 asks for more than is available
C30_Witness ==
  /\ exec_log = <<<<1>>>> /\ waiting_jobs = <<2>> /\ 1 \in Running
  /\ req[2] > Cardinality(GetAvailableNodes(node_state))
  /\ GetAvailableNodes(node_state) # {}

\* the pool nodes the pass of this step has given to no job when it ends
PoolAtEnd == PoolAtTurn(PassQueue, Len(PassQueue) + 1)

\* C31: pass maximality: when a pass ends, every job it leaves in the
\* waiting queue asks for strictly more nodes than the pool nodes the pass
\* has given to no job (the COMPUTING and IDLE nodes at its start less the
\* nodes given out during the pass).
C31_PassMaximality ==
  [][PassStep =>
       \A w \in SeqToSet(waiting_jobs') : req'[w] > Cardinality(PoolAtEnd)]_vars

\* a pass gave three of the four nodes to job 1 and left job 2 waiting: it
\* asks for more than the one node that remains, though not for more than
\* are available
C31_Witness ==
  /\ running_jobs = <<1>> /\ waiting_jobs = <<2>> /\ exec_log = <<<<1>>>>
  /\ Cardinality(GetAvailableNodes(node_state)) = NumNodes
  /\ Cardinality(GetAvailableNodes(node_state) \ allocation[1]) = 1
  /\ req[2] > 1 /\ req[2] <= NumNodes

\* the timer is stopped: the run has begun and no requested call is pending,
\* which only a tick that performed the idle shutdown brings about
TimerStopped == phase = "Running" /\ pending_call = {}

\* C32: timer arming: a wake-up is requested only by a periodic tick, at most
\* once per tick; simulation begin, submissions and completions request
\* none, so once a tick has performed the idle shutdown no later event, a new
\* submission included, arms the timer again, and no further power check or
\* snapshot takes place.
C32_TimerArming ==
  [][/\ Len(wake_requests') <= 1
     /\ wake_requests' # <<>> => TickStep
     /\ TimerStopped =>
          /\ pending_call' = {} /\ wake_requests' = <<>>
          /\ nb_records' = nb_records /\ last_power_check' = last_power_check
          /\ written' = <<>>]_vars

\* the first tick performed the idle shutdown, a job submitted after it is
\* running, and the timer is still stopped with ticks left to deliver
C32_Witness ==
  /\ TimerStopped /\ nb_records = 1 /\ nb_records < MaxTicks
  /\ 1 \in done /\ running_jobs = <<2>> /\ wake_requests = <<>>

====
